---- MODULE Spec2Model ----
(***************************************************************************)
(* A model of tensorx/train.py: the LayerGraph dependency graph (its       *)
(* construction and its eval), and the Model container's session and       *)
(* variable-initialisation life cycle.                                     *)
(*                                                                         *)
(* Layers are numbered 1..NLayers; layer.input_layers, the presence of a   *)
(* placeholder attribute and layer.value are the state of the layer        *)
(* network the program has built.  Tensors, fed values and fetched values  *)
(* are opaque to train.py and are modelled as tagged records.              *)
(***************************************************************************)
EXTENDS Integers, Sequences, FiniteSets, TLC

\* number of layers of the layer network
NLayers == 3
\* largest number of input layers of one layer
MaxFanIn == 2
\* largest number of output layers handed to LayerGraph
MaxOutputs == 2
\* largest number of target_outputs handed to LayerGraph.eval
MaxTargets == 1
\* number of distinct other tensors a graph / a call may carry
NTensors == 1
\* largest number of Session objects created
MaxSessions == 2
\* largest number of run_step, eval_step and train_step calls counted together
MaxSteps == 2

VARIABLES
    input_layers,   \* layer -> sequence of layers (layer.input_layers)
    placeholder,    \* set of layers that have a placeholder attribute
    value,          \* layer -> default value or None (layer.value)
    lg,             \* the LayerGraph object, NoGraph before construction
    ctor,           \* the last LayerGraph(...) call: arguments and outcome
    ev,             \* the last LayerGraph.eval(...) call: arguments and outcome
    variables,      \* layer -> set of variable names (layer.variables)
    model,          \* the Model object's attributes
    default_session,\* ops.get_default_session(): a session, or NoSession
    sessions,       \* number of Session objects created so far
    initialised,    \* sessions the model completed init_vars or load_model in
    call,           \* the last call of a Model method: arguments and outcome
    train,          \* the activation of Model.train: its locals and its position
    math,           \* the last call of a tensorx.math function: arguments and result
    callback        \* a Callback object of train.py, its target property and its last invocation

netVars == <<input_layers, placeholder, value, variables>>
graphVars == <<lg, ctor, ev>>
modelVars == <<model, default_session, sessions, initialised, call>>
trainVars == <<train>>
mathVars == <<math>>
utilVars == <<callback>>
vars == <<input_layers, placeholder, value, lg, ctor, ev,
          variables, model, default_session, sessions, initialised, call, train, math, callback>>

Layers == 1 .. NLayers
None == "None"
DefaultVals == {"default"}
FeedVals == {"fed"}

-----------------------------------------------------------------------------
(* Python list / set / dict helpers *)

Range(s) == {s[i] : i \in 1 .. Len(s)}
InList(x, s) == x \in Range(s)

\* the elements of a set of integers as an ascending list
RECURSIVE SortedList(_)
SortedList(S) ==
    IF S = {} THEN <<>>
    ELSE LET m == CHOOSE x \in S : \A y \in S : x <= y
         IN <<m>> \o SortedList(S \ {m})

\* lists without repetition over S, of length lo..hi
ListsOf(S, lo, hi) ==
    {s \in UNION {[1 .. n -> S] : n \in lo .. hi} :
        \A i, j \in 1 .. Len(s) : i # j => s[i] # s[j]}

\* layer.tensor, and the tensors / ops that are not layers
Tensor(layer) == [src |-> "layer", id |-> layer]
OtherTensor(k) == [src |-> "tensor", id |-> k]
\* what session.run returns for one fetch
ValueOf(fetch) == [value_of |-> fetch]

-----------------------------------------------------------------------------
(* LayerGraph.__init__ *)

NoGraph == [built |-> FALSE]

\* build_graph, the for loop over current_layer.input_layers: every input
\* layer gets an edge, and is queued unless visited or already queued
RECURSIVE visit_inputs(_, _, _, _)
visit_inputs(ins, current_layer, visited, st) ==
    IF ins = <<>> THEN st
    ELSE LET input_layer == Head(ins)
             queued == IF input_layer \notin visited /\ ~InList(input_layer, st.to_visit)
                       THEN Append(st.to_visit, input_layer)
                       ELSE st.to_visit
         IN visit_inputs(Tail(ins), current_layer, visited,
                         [to_visit |-> queued,
                          graph |-> st.graph \cup {<<input_layer, current_layer>>}])

\* the condition under which build_graph registers current_layer as a dependency
is_end_node(current_layer) ==
    Len(input_layers[current_layer]) = 0 /\ current_layer \in placeholder

\* build_graph(output_layer): the while loop over to_visit.  b holds the
\* closure's variables: visited (shared by all outputs), dependencies, graph
RECURSIVE build_graph(_, _, _)
build_graph(output_layer, to_visit, b) ==
    IF to_visit = <<>> THEN b
    ELSE LET current_layer == Head(to_visit)
             rest == Tail(to_visit)
         IN IF current_layer \in b.visited
            THEN build_graph(output_layer, rest, b)
            ELSE LET visited1 == b.visited \cup {current_layer}
                     deps1 == IF is_end_node(current_layer)
                                 /\ ~InList(current_layer, b.dependencies[output_layer])
                              THEN [b.dependencies EXCEPT
                                      ![output_layer] = Append(@, current_layer)]
                              ELSE b.dependencies
                     st == visit_inputs(input_layers[current_layer], current_layer, visited1,
                                        [to_visit |-> rest, graph |-> b.graph])
                 IN build_graph(output_layer, st.to_visit,
                                [visited |-> visited1,
                                 dependencies |-> deps1,
                                 graph |-> st.graph])

\* the test that makes a discovered dependency a missing one
NoLenCheck_is_missing(dependency, inputs) == dependency \notin inputs
is_missing(dependency, inputs) ==
    dependency \notin inputs /\ Cardinality(inputs) # 0

\* the for loop over dependencies[output] that fills missing_dep[output]
RECURSIVE collect_missing(_, _, _, _)
collect_missing(deps, output, inputs, missing_dep) ==
    IF deps = <<>> THEN missing_dep
    ELSE LET dependency == Head(deps)
             m1 == IF is_missing(dependency, inputs)
                   THEN LET m0 == IF output \in DOMAIN missing_dep
                                  THEN missing_dep
                                  ELSE missing_dep @@ (output :> <<>>)
                        IN IF ~InList(dependency, m0[output])
                           THEN [m0 EXCEPT ![output] = Append(@, dependency)]
                           ELSE m0
                   ELSE missing_dep
         IN collect_missing(Tail(deps), output, inputs, m1)

\* the for loop over self.output_layers: build_graph(output), then the
\* missing dependencies of that output.  acc = [b, missing_dep]
RECURSIVE build_all(_, _, _)
build_all(outputs, inputs, acc) ==
    IF outputs = <<>> THEN acc
    ELSE LET output == Head(outputs)
             b1 == build_graph(output, <<output>>, acc.b)
             m1 == collect_missing(b1.dependencies[output], output, inputs, acc.missing_dep)
         IN build_all(Tail(outputs), inputs, [b |-> b1, missing_dep |-> m1])

\* all_dependencies: the union of the dependency lists of all outputs
all_dependencies(dependencies) ==
    UNION {Range(dependencies[o]) : o \in DOMAIN dependencies}

\* inputs that are no dependency of any output
Nothing_unused_dependencies(inputs, dependencies) == {}
unused_dependencies(inputs, dependencies) ==
    inputs \ all_dependencies(dependencies)

\* LayerGraph(outputs, inputs, other_tensors, other_inputs): the exception
\* raised ("none" when it returns) and the object's attributes.  The
\* arguments are what as_list made of them: lists, inputs as set(as_list(..))
LayerGraphInit(outputs, inputs, other_tensors, other_inputs) ==
    LET b0 == [visited |-> {},
               dependencies |-> [o \in Range(outputs) |-> <<>>],
               graph |-> {}]
        acc == build_all(outputs, inputs, [b |-> b0, missing_dep |-> <<>>])
        b == acc.b
        unused == unused_dependencies(inputs, b.dependencies)
        raised == IF DOMAIN acc.missing_dep # {} THEN "ValueError"
                  ELSE IF Cardinality(unused) > 0 THEN "ValueError"
                  ELSE "none"
    IN [raised |-> raised,
        missing_dep |-> acc.missing_dep,
        self |-> [built |-> TRUE,
                  other_tensors |-> other_tensors,
                  other_inputs |-> other_inputs,
                  input_layers |-> IF Cardinality(inputs) = 0
                                   THEN all_dependencies(b.dependencies)
                                   ELSE inputs,
                  output_layers |-> outputs,
                  graph |-> b.graph,
                  dependencies |-> b.dependencies,
                  layers |-> b.visited]]

-----------------------------------------------------------------------------
(* LayerGraph.missing_dependencies and LayerGraph.eval *)

\* a feed argument: a dict from layers to values, or something that is no dict
Dict(items) == [is_dict |-> TRUE, items |-> items]
NotADict == [is_dict |-> FALSE, items |-> <<>>]
EmptyDict == <<>>

\* missing_dependencies(inputs, outputs): output -> set of its dependencies
\* that are not in inputs, for the outputs that miss at least one
missing_dependencies(self, inputs, outputs) ==
    LET missing(o) == {dep \in Range(self.dependencies[o]) : dep \notin inputs}
    IN [o \in {out \in Range(outputs) : missing(out) # {}} |-> missing(o)]

\* dict.update: the entries of other replace and extend those of d
dict_update(d, other) ==
    [k \in DOMAIN d \cup DOMAIN other |-> IF k \in DOMAIN other THEN other[k] ELSE d[k]]

\* the default_feed built when use_defaults: the missing dependencies that
\* have a value, and every layer of other_inputs that has a value
default_feed(self, missing_dep) ==
    LET from_deps == {in_layer \in UNION {missing_dep[o] : o \in DOMAIN missing_dep} :
                          value[in_layer] # None}
        from_others == {in_layer \in Range(self.other_inputs) : value[in_layer] # None}
    IN [in_layer \in from_deps \cup from_others |-> value[in_layer]]

\* new_missing_dep: the missing dependencies that have no default value
new_missing_dep(missing_dep) ==
    LET without(o) == {in_layer \in missing_dep[o] : value[in_layer] = None}
    IN [o \in {out \in DOMAIN missing_dep : without(out) # {}} |-> without(o)]

\* missing_others: the layers of other_inputs that have no default value
missing_others(self) ==
    {in_layer \in Range(self.other_inputs) : value[in_layer] = None}

\* the exception raised for missing_others: str.format is given the text
\* positionally while the template names the field {dep}
MissingOthersError == "KeyError"

\* fetches: the evaluated output layers' tensors, then the other tensors
fetches(output_layers, other_tensors) ==
    [i \in 1 .. Len(output_layers) |-> Tensor(output_layers[i])] \o other_tensors

\* other_tensors = self.other_tensors + as_list(other_tensors)
all_other_tensors(self, other_tensors) == self.other_tensors \o other_tensors

\* session.run(fetches): one value per fetch, in the order of the fetches
session_run(fs) == [i \in 1 .. Len(fs) |-> ValueOf(fs[i])]

\* a returned result: a list of values or one bare value
ListResult(items) == [kind |-> "list", items |-> items]
BareResult(v) == [kind |-> "value", items |-> <<v>>]
NoResult == [kind |-> "none", items |-> <<>>]

\* the end of eval: result[0] when one output and no other tensors
SingleOutput_eval_result(result, output_layers, other_tensors) ==
    IF Len(output_layers) = 1 THEN BareResult(result[1]) ELSE ListResult(result)
eval_result(result, output_layers, other_tensors) ==
    IF Len(output_layers) = 1 /\ Len(other_tensors) = 0
    THEN BareResult(result[1])
    ELSE ListResult(result)

\* LayerGraph.eval(feed, other_tensors, target_outputs, use_defaults): the
\* exception raised ("none" when it returns), what session.run was called
\* with, the result, and the caller's feed dict after the call
LayerGraphEval(self, feed, other_tensors, target_outputs, use_defaults) ==
    LET failed(exc, feed_after) ==
            [raised |-> exc, session_run |-> FALSE, fetches |-> <<>>,
             feed_dict |-> EmptyDict, result |-> NoResult, feed_after |-> feed_after]
        others == all_other_tensors(self, other_tensors)
        invalid_out == SelectSeq(target_outputs, LAMBDA t : ~InList(t, self.output_layers))
        output_layers == IF Len(target_outputs) > 0 THEN target_outputs
                         ELSE self.output_layers
    IN IF ~feed.is_dict THEN failed("TypeError", EmptyDict)
       ELSE IF Len(target_outputs) > 0 /\ Len(invalid_out) # 0
       THEN failed("ValueError", feed.items)
       ELSE
       LET inputs_fed == DOMAIN feed.items
           missing0 == missing_dependencies(self, inputs_fed, output_layers)
           missing1 == IF use_defaults THEN new_missing_dep(missing0) ELSE missing0
           others_missing == IF use_defaults THEN missing_others(self) ELSE {}
           feed1 == IF use_defaults
                    THEN dict_update(feed.items, default_feed(self, missing0))
                    ELSE feed.items
           fs == fetches(output_layers, others)
       IN IF Cardinality(others_missing) > 0 THEN failed(MissingOthersError, feed1)
          ELSE IF DOMAIN missing1 # {} THEN failed("ValueError", feed1)
          ELSE [raised |-> "none",
                session_run |-> TRUE,
                fetches |-> fs,
                feed_dict |-> [t \in {Tensor(l) : l \in DOMAIN feed1} |-> feed1[t.id]],
                result |-> eval_result(session_run(fs), output_layers, others),
                feed_after |-> feed1]

-----------------------------------------------------------------------------
(* The layer networks and the calls the specifications draw from *)

\* layer.input_layers of layer l: an ascending list of lower-numbered layers
FanIns(l) == {SortedList(S) : S \in {T \in SUBSET (1 .. l - 1) : Cardinality(T) <= MaxFanIn}}

Leaves == {l \in Layers : Len(input_layers[l]) = 0}

NoCtor == [called |-> FALSE]
NoEval == [called |-> FALSE]
NoModel == [built |-> FALSE]
NoSession == 0
NoCall == [op |-> "none", seq |-> 0]
NoTrain == [pc |-> "none"]
NoMath == [called |-> FALSE]
NoCallback == [kind |-> "none"]

\* a layer network without default values
InitNet ==
    /\ input_layers \in {f \in [Layers -> UNION {FanIns(l) : l \in Layers}] :
                            \A l \in Layers : f[l] \in FanIns(l)}
    /\ placeholder \in SUBSET Leaves
    /\ lg = NoGraph
    /\ ctor = NoCtor
    /\ ev = NoEval
    /\ variables = [l \in Layers |-> {}]
    /\ model = NoModel
    /\ default_session = NoSession
    /\ sessions = 0
    /\ initialised = {}
    /\ call = NoCall
    /\ train = NoTrain
    /\ math = NoMath
    /\ callback = NoCallback

OutputLists == ListsOf(Layers, 1, MaxOutputs)
GraphTensorLists == {<<>>} \cup {<<OtherTensor(k)>> : k \in 1 .. NTensors}
CallTensorLists == {<<>>} \cup {<<OtherTensor(NTensors + k)>> : k \in 1 .. NTensors}
\* other_inputs are Input or Param layers: end nodes with a placeholder
OtherInputLists == {<<>>} \cup {<<l>> : l \in placeholder}

\* graph = LayerGraph(outputs, inputs, other_tensors, other_inputs)
NewLayerGraph(outputs, inputs, other_tensors, other_inputs) ==
    /\ ~ctor.called
    /\ LET r == LayerGraphInit(outputs, inputs, other_tensors, other_inputs)
       IN /\ ctor' = [called |-> TRUE, outputs |-> outputs, inputs |-> inputs,
                      other_tensors |-> other_tensors, other_inputs |-> other_inputs,
                      raised |-> r.raised]
          /\ lg' = IF r.raised = "none" THEN r.self ELSE NoGraph
    /\ ev' = NoEval
    /\ UNCHANGED <<netVars, modelVars, trainVars, mathVars, utilVars>>

\* graph.eval(feed, other_tensors, target_outputs, use_defaults)
Eval(feed, other_tensors, target_outputs, use_defaults) ==
    /\ lg.built
    /\ ~ev.called
    /\ LET r == LayerGraphEval(lg, feed, other_tensors, target_outputs, use_defaults)
       IN ev' = [called |-> TRUE, feed |-> feed, other_tensors |-> other_tensors,
                 target_outputs |-> target_outputs, use_defaults |-> use_defaults,
                 raised |-> r.raised, session_run |-> r.session_run,
                 fetches |-> r.fetches, feed_dict |-> r.feed_dict,
                 result |-> r.result, feed_after |-> r.feed_after]
    /\ UNCHANGED <<netVars, modelVars, trainVars, mathVars, utilVars, lg, ctor>>

\* the construction of layer graphs, with and without declared inputs
InitBuild ==
    /\ InitNet
    /\ value = [l \in Layers |-> None]

NextBuild ==
    /\ ~ctor.called
    /\ \E outputs \in OutputLists, inputs \in SUBSET Layers :
           NewLayerGraph(outputs, inputs, <<>>, <<>>)

SpecBuild == InitBuild /\ [][NextBuild]_vars

\* the evaluation of layer graphs built without declared inputs
InitEval ==
    /\ InitNet
    /\ value \in {v \in [Layers -> {None} \cup DefaultVals] :
                     \A l \in Layers : l \notin placeholder => v[l] = None}

FeedDicts ==
    {NotADict} \cup
    {Dict(f) : f \in UNION {[K -> FeedVals] : K \in SUBSET placeholder}}

NextEval ==
    \/ /\ ~ctor.called
       /\ \E outputs \in OutputLists,
             other_tensors \in GraphTensorLists, other_inputs \in OtherInputLists :
               NewLayerGraph(outputs, {}, other_tensors, other_inputs)
    \/ /\ lg.built
       /\ ~ev.called
       /\ \E feed \in FeedDicts, other_tensors \in CallTensorLists,
             target_outputs \in ListsOf(Layers, 0, MaxTargets), use_defaults \in BOOLEAN :
               Eval(feed, other_tensors, target_outputs, use_defaults)

SpecEval == InitEval /\ [][NextEval]_vars

-----------------------------------------------------------------------------
(* What the claims about LayerGraph speak of *)

\* the layers reachable from l through input_layers, l included
RECURSIVE Reachable(_)
Reachable(l) == {l} \cup UNION {Reachable(input_layers[l][i]) : i \in 1 .. Len(input_layers[l])}

\* the input dependencies of an output: the reachable layers that have no
\* input layers and carry a placeholder
InputDependencies(o) ==
    {l \in Reachable(o) : Len(input_layers[l]) = 0 /\ l \in placeholder}

InputDependenciesOf(outputs) == UNION {InputDependencies(o) : o \in Range(outputs)}

\* C1: in a built graph, dependencies[o] is exactly the set of input
\* dependencies of o, for every output o, whatever earlier outputs reach
C1_DependenciesOfEveryOutput ==
    lg.built =>
        \A o \in Range(lg.output_layers) :
            Range(lg.dependencies[o]) = InputDependencies(o)

\* C2: with declared inputs, an input dependency of some output that is not
\* declared makes the constructor raise ValueError and leave no graph; with
\* no declared inputs the constructor returns and input_layers is the
\* collection of all input dependencies
C2_MissingInputRaises ==
    ctor.called =>
        /\ (ctor.inputs # {} /\ ~(InputDependenciesOf(ctor.outputs) \subseteq ctor.inputs))
              => (ctor.raised = "ValueError" /\ lg = NoGraph)
        /\ ctor.inputs = {}
              => /\ ctor.raised = "none"
                 /\ lg.built
                 /\ lg.input_layers = InputDependenciesOf(ctor.outputs)

C2_Witness ==
    /\ ctor.called
    /\ ctor.inputs # {}
    /\ \E o \in Range(ctor.outputs) : \E d \in InputDependencies(o) : d \notin ctor.inputs
    /\ ctor.raised = "ValueError"
    /\ lg = NoGraph

\* C3: a declared input that is a dependency of no output makes the
\* constructor raise ValueError, also when no dependency is missing
C3_UnusedInputRaises ==
    (ctor.called /\ ~(ctor.inputs \subseteq InputDependenciesOf(ctor.outputs)))
        => (ctor.raised = "ValueError" /\ lg = NoGraph)

C3_Witness ==
    /\ ctor.called
    /\ InputDependenciesOf(ctor.outputs) # {}
    /\ InputDependenciesOf(ctor.outputs) \subseteq ctor.inputs
    /\ ctor.inputs \ InputDependenciesOf(ctor.outputs) # {}
    /\ ctor.raised = "ValueError"

\* the output layers an eval call evaluates, and all of its other tensors
Evaluated == IF Len(ev.target_outputs) > 0 THEN ev.target_outputs ELSE lg.output_layers
EvalOtherTensors == lg.other_tensors \o ev.other_tensors

\* an eval call with a dict for feed and targets that are outputs of the graph
WellFormedEval ==
    /\ ev.called
    /\ ev.feed.is_dict
    /\ Range(ev.target_outputs) \subseteq Range(lg.output_layers)

\* C4: with use_defaults, a dependency of the evaluated outputs that is not
\* in feed and has a default value reaches session.run with that value, and
\* eval raises no error when defaults cover all that is missing
C4_DefaultsAreFed ==
    (WellFormedEval /\ ev.use_defaults) =>
        LET deps == InputDependenciesOf(Evaluated)
            defaulted == {d \in deps : d \notin DOMAIN ev.feed.items /\ value[d] # None}
        IN /\ ev.session_run =>
                 \A d \in defaulted :
                     /\ Tensor(d) \in DOMAIN ev.feed_dict
                     /\ ev.feed_dict[Tensor(d)] = value[d]
           /\ ((\A d \in deps : d \in DOMAIN ev.feed.items \/ value[d] # None)
                  /\ (\A p \in Range(lg.other_inputs) : value[p] # None))
                 => ev.raised = "none"

\* C5: every value the caller put in feed is the value session.run gets for
\* that layer
C5_FedValuesAreKept ==
    (ev.called /\ ev.session_run) =>
        \A l \in DOMAIN ev.feed.items :
            /\ Tensor(l) \in DOMAIN ev.feed_dict
            /\ ev.feed_dict[Tensor(l)] = ev.feed.items[l]

\* C6: a dependency of an evaluated output that is neither fed nor filled
\* with a default makes eval raise ValueError without calling session.run;
\* the dependencies of outputs that are not evaluated are not required
C6_MissingDependencyRaises ==
    WellFormedEval =>
        LET deps == InputDependenciesOf(Evaluated)
            unfed == {d \in deps : /\ d \notin DOMAIN ev.feed.items
                                   /\ (ev.use_defaults => value[d] = None)}
        IN /\ unfed # {} => (ev.raised = "ValueError" /\ ~ev.session_run)
           /\ (unfed = {} /\ \A p \in Range(lg.other_inputs) : value[p] # None)
                 => ev.raised = "none"

\* C7: with use_defaults, a layer of other_inputs without a value makes
\* eval raise ValueError without calling session.run
C7_MissingOtherInputRaisesValueError ==
    (WellFormedEval /\ ev.use_defaults
        /\ \E p \in Range(lg.other_inputs) : value[p] = None)
        => (ev.raised = "ValueError" /\ ~ev.session_run)

\* C8: eval returns the bare value of the output exactly when one output
\* layer is evaluated and there are no other tensors; otherwise a list: the
\* values of the evaluated outputs in order, then of the graph's other
\* tensors, then of the call's other tensors
C8_ResultShape ==
    (ev.called /\ ev.session_run) =>
        LET expected == [i \in 1 .. Len(Evaluated) |-> ValueOf(Tensor(Evaluated[i]))]
                        \o [i \in 1 .. Len(lg.other_tensors) |-> ValueOf(lg.other_tensors[i])]
                        \o [i \in 1 .. Len(ev.other_tensors) |-> ValueOf(ev.other_tensors[i])]
        IN IF Len(Evaluated) = 1 /\ Len(EvalOtherTensors) = 0
           THEN ev.result = BareResult(ValueOf(Tensor(Evaluated[1])))
           ELSE ev.result = ListResult(expected)

C8_Witness ==
    /\ ev.called
    /\ ev.session_run
    /\ Len(Evaluated) = 1
    /\ Len(lg.other_tensors) = 1
    /\ Len(ev.other_tensors) = 1
    /\ ev.result.kind = "list"
    /\ Len(ev.result.items) = 3

-----------------------------------------------------------------------------
(* Model: construction, sessions and variable initialisation *)

NotASession == -1
VarNames == {"w"}
\* self.joint_loss before config_optimizer
NoLoss == [layer |-> 0, fn |-> "None"]

\* has_vars(): some run, train or eval variable exists
has_vars(m) ==
    \/ Cardinality(m.run_vars) # 0
    \/ Cardinality(m.train_vars) # 0
    \/ Cardinality(m.eval_vars) # 0

\* Model(run_outputs, run_inputs, train_inputs, train_loss, eval_inputs,
\* eval_outputs, eval_score, update_inputs, update_ops): the exception
\* raised and the attributes
ModelInit(a) ==
    LET run == LayerGraphInit(a.run_outputs, a.run_inputs, <<>>, <<>>)
        evl == LayerGraphInit(a.eval_outputs \o a.eval_score, a.eval_inputs, <<>>, <<>>)
        upd == LayerGraphInit(a.update_ops, a.update_inputs, <<>>, <<>>)
        raised == IF run.raised # "none" THEN run.raised
                  ELSE IF evl.raised # "none" THEN evl.raised
                  ELSE IF Len(a.update_ops) > 0 /\ upd.raised # "none" THEN upd.raised
                  ELSE "none"
        m0 == [built |-> TRUE,
               run_inputs |-> a.run_inputs,
               run_outputs |-> a.run_outputs,
               train_inputs |-> a.train_inputs,
               train_loss |-> a.train_loss,
               eval_inputs |-> a.eval_inputs,
               eval_outputs |-> a.eval_outputs,
               eval_score |-> a.eval_score,
               update_inputs |-> a.update_inputs,
               update_ops |-> a.update_ops,
               run_graph |-> run.self,
               eval_graph |-> evl.self,
               run_vars |-> UNION {variables[l] : l \in run.self.layers},
               train_vars |-> {},
               eval_vars |-> UNION {variables[l] : l \in evl.self.layers},
               update_graph |-> IF Len(a.update_ops) > 0 THEN upd.self ELSE NoGraph,
               session |-> NoSession,
               var_inited |-> [inited |-> FALSE, session |-> NoSession],
               optimizer_params |-> <<>>,
               joint_loss |-> NoLoss,
               train_step |-> "None",
               saver |-> "unset",
               init_var_op |-> FALSE,
               log_dir |-> FALSE,
               run_steps |-> 0,
               train_steps |-> 0,
               eval_steps |-> 0,
               train_graph |-> NoGraph,
               train_called |-> FALSE]
    IN [raised |-> raised,
        self |-> [m0 EXCEPT !.saver = IF has_vars(m0) THEN "Saver" ELSE "unset"]]

\* vars_inited(): inited and init_sess == self.session, on _var_inited
IgnoreSession_vars_inited(m) == m.var_inited.inited
vars_inited(m) ==
    m.var_inited.inited /\ m.var_inited.session = m.session

\* _default_session(): the default session, or a newly created Session()
_default_session(w) ==
    IF default_session # NoSession
    THEN [session |-> default_session, sessions |-> w.sessions]
    ELSE [session |-> w.sessions + 1, sessions |-> w.sessions + 1]

\* set_session(session): w is the model together with the sessions created
\* and the initialiser runs of the current call
set_session(w, session) ==
    IF session = NoSession
    THEN LET d == _default_session(w)
         IN [w EXCEPT !.model.session = d.session, !.sessions = d.sessions]
    ELSE [w EXCEPT !.model.session = session]

\* what is at the path of the log directory: a directory, or nothing where
\* one can be made; a file; nothing where no directory can be made
LogPaths == {"directory", "file", "unwritable"}

\* set_log_dir(): self.log_dir is the given directory or <cwd>/log; it is
\* made when nothing is there (os.mkdir raises when it cannot be), and a
\* path that is not a directory raises ValueError, log_dir being set
set_log_dir(w, log) ==
    [w |-> [w EXCEPT !.model.log_dir = TRUE],
     raised |-> IF log = "unwritable" THEN "OSError"
                ELSE IF log = "file" THEN "ValueError" ELSE "none"]

\* log_graph(): binds the default session or a new one, whatever session
\* the model had, sets the log directory and writes the graph there
log_graph(w, log) == set_log_dir(set_session(w, NoSession), log)

\* if self.session is None: self.set_session()
ensure_session(w) ==
    IF w.model.session = NoSession THEN set_session(w, NoSession) ELSE w

\* _set_vars_inited(): self._var_inited = (True, self.session)
_set_vars_inited(w) ==
    [w EXCEPT !.model.var_inited = [inited |-> TRUE, session |-> w.model.session],
              !.initialised = @ \cup {w.model.session}]

\* init_vars(): bind a session, create the initialiser op once, run it, and
\* mark the variables initialised in the session
init_vars(w) ==
    LET w1 == ensure_session(w)
    IN [w1 EXCEPT !.model.init_var_op = TRUE,
                  !.model.var_inited = [inited |-> TRUE, session |-> w1.model.session],
                  !.initialised = @ \cup {w1.model.session},
                  !.inits = @ + 1]

\* the test of run_step and eval_step that runs init_vars
AlwaysInit_needs_init(m) == ~vars_inited(m)
needs_init(m) == ~vars_inited(m) /\ has_vars(m)

\* result[0] of something eval returned: an element of a list, a row of a value
Index0(result) ==
    IF result.kind = "list" THEN BareResult(result.items[1])
    ELSE [kind |-> "row", items |-> result.items]

\* run_step / eval_step up to the evaluation of their graph: bind a session,
\* initialise the variables when needed, bring the update graph up to date
\* after a train step
prepare_step(w) ==
    LET w1 == ensure_session(w)
        w2 == IF needs_init(w1.model) THEN init_vars(w1) ELSE w1
        update == w2.model.train_called /\ w2.model.update_graph.built
        upd == LayerGraphEval(w2.model.update_graph, NotADict, <<>>, <<>>, TRUE)
    IN IF update /\ upd.raised # "none" THEN [w |-> w2, raised |-> upd.raised]
       ELSE [w |-> [w2 EXCEPT !.model.train_called = FALSE,
                              !.updates = IF update /\ upd.session_run THEN @ + 1 ELSE @],
             raised |-> "none"]

\* run_step(feed), write_summaries=False, no runtime statistics
run_step(w, feed) ==
    LET p == prepare_step(w)
        r == LayerGraphEval(p.w.model.run_graph, feed, <<>>, <<>>, TRUE)
    IN IF p.raised # "none" THEN [w |-> p.w, raised |-> p.raised, result |-> NoResult]
       ELSE IF r.raised # "none" THEN [w |-> p.w, raised |-> r.raised, result |-> NoResult]
       ELSE [w |-> [p.w EXCEPT !.model.run_steps = @ + 1],
             raised |-> "none",
             result |-> IF Len(p.w.model.run_outputs) = 1
                        THEN Index0(r.result) ELSE r.result]

\* eval_step(feed_dict), write_summaries=False, no runtime statistics
eval_step(w, feed) ==
    LET p == prepare_step(w)
        r == LayerGraphEval(p.w.model.eval_graph, feed, <<>>, p.w.model.eval_score, TRUE)
    IN IF p.raised # "none" THEN [w |-> p.w, raised |-> p.raised, result |-> NoResult]
       ELSE IF r.raised # "none" THEN [w |-> p.w, raised |-> r.raised, result |-> NoResult]
       ELSE [w |-> [p.w EXCEPT !.model.eval_steps = @ + 1],
             raised |-> "none",
             result |-> r.result]

\* the checkpoint path load_model restores from
model_path(step) == [dir |-> "log_dir", name |-> "model_name", step |-> step]

\* load_model(global_step, load_graph): global_step is None, a number or a
\* Variable; found tells whether the files to read exist
load_model(w, global_step, load_graph, found, log) ==
    LET w1 == ensure_session(w)
        dir == set_log_dir(w1, log)
        w2 == dir.w
        path == IF global_step = "None" THEN model_path("none") ELSE model_path("step")
        w3 == IF load_graph THEN [w2 EXCEPT !.model.saver = "imported"] ELSE w2
    IN IF dir.raised # "none"
       THEN [w |-> w2, raised |-> dir.raised, path |-> model_path("none")]
       ELSE IF global_step = "int"
       THEN [w |-> w2, raised |-> "UnboundLocalError", path |-> model_path("none")]
       ELSE IF load_graph /\ ~found
       THEN [w |-> w2, raised |-> "IOError", path |-> path]
       ELSE IF has_vars(w3.model) /\ w3.model.saver = "unset"
       THEN [w |-> w3, raised |-> "AttributeError", path |-> path]
       ELSE IF has_vars(w3.model) /\ ~found
       THEN [w |-> w3, raised |-> "NotFoundError", path |-> path]
       ELSE [w |-> _set_vars_inited(w3), raised |-> "none", path |-> path]

-----------------------------------------------------------------------------
(* Model: training and checkpoints *)

\* the layer Mean(*train_loss) that config_optimizer creates over several
\* losses; nothing refers to it before config_optimizer
MeanLayer == NLayers + 1
\* the op optimizer.minimize(loss) returns
MinimizeOp == OtherTensor(0)

\* self.joint_loss: the loss itself, or the Mean layer over the losses
joint_loss(train_loss) ==
    IF Len(train_loss) = 1
    THEN [layer |-> train_loss[1], fn |-> "loss"]
    ELSE [layer |-> MeanLayer, fn |-> "Mean"]

\* config_optimizer(optimizer, optimizer_params), no gradient_op
config_optimizer(w, optimizer_params) ==
    LET m1 == [w.model EXCEPT !.optimizer_params = optimizer_params]
        jl == joint_loss(m1.train_loss)
        m2 == [m1 EXCEPT !.joint_loss = jl, !.train_step = "Operation"]
        g == LayerGraphInit(<<jl.layer>>, m2.train_inputs, <<MinimizeOp>>, optimizer_params)
        m3 == [m2 EXCEPT !.train_graph = g.self,
                         !.train_vars = UNION {variables[l] : l \in g.self.layers}]
    IN IF Len(m1.train_loss) = 0
       THEN [w |-> [w EXCEPT !.model = m1], raised |-> "ValueError"]
       ELSE IF g.raised # "none"
       THEN [w |-> [w EXCEPT !.model = m2], raised |-> g.raised]
       ELSE [w |-> [w EXCEPT !.model = m3], raised |-> "none"]

\* model.train_step(feed_dict): the instance attribute train_step, None
\* after __init__ and the minimize op after config_optimizer, hides the
\* method; neither can be called
attribute_train_step(w, feed_dict) ==
    [w |-> w, raised |-> "TypeError", result |-> NoResult]

\* the method train_step(self, feed_dict), write_summaries=False, no
\* runtime statistics; reached as Model.train_step(model, feed_dict)
train_step(w, feed_dict) ==
    LET w0 == [w EXCEPT !.model.train_called = TRUE]
        w1 == ensure_session(w0)
        w2 == IF ~vars_inited(w1.model) THEN init_vars(w1) ELSE w1
        r == LayerGraphEval(w2.model.train_graph, feed_dict, <<>>,
                            <<w2.model.joint_loss.layer>>, TRUE)
    IN IF ~w2.model.train_graph.built
       THEN [w |-> w2, raised |-> "AttributeError", result |-> NoResult]
       ELSE IF r.raised # "none" THEN [w |-> w2, raised |-> r.raised, result |-> NoResult]
       ELSE [w |-> [w2 EXCEPT !.model.train_steps = @ + 1],
             raised |-> "none",
             result |-> Index0(r.result)]

\* save_model(save_graph): what was written, and the exception raised
save_model(w, save_graph, log) ==
    LET w1 == ensure_session(w)
        dir == set_log_dir(w1, log)
        w2 == dir.w
        wrote(graph, vs) == [kind |-> "saved", items |-> <<>>, graph |-> graph, variables |-> vs]
    IN IF ~(has_vars(w.model) \/ save_graph)
       THEN [w |-> w, raised |-> "ValueError", result |-> wrote(FALSE, FALSE)]
       ELSE IF dir.raised # "none"
       THEN [w |-> w2, raised |-> dir.raised, result |-> wrote(FALSE, FALSE)]
       ELSE IF has_vars(w2.model) /\ w2.model.saver = "unset"
       THEN [w |-> w2, raised |-> "AttributeError", result |-> wrote(save_graph, FALSE)]
       ELSE [w |-> w2, raised |-> "none", result |-> wrote(save_graph, has_vars(w2.model))]

-----------------------------------------------------------------------------
(* The Model specification: one model and the sessions around it *)

World ==
    [model |-> model, sessions |-> sessions, initialised |-> initialised,
     inits |-> 0, updates |-> 0]

\* a method that binds a session can create one
CanBind ==
    model.session # NoSession \/ default_session # NoSession \/ sessions < MaxSessions

Returned(op, r, result) ==
    /\ model' = r.w.model
    /\ sessions' = r.w.sessions
    /\ initialised' = r.w.initialised
    /\ call' = [op |-> op, seq |-> 1 - call.seq, raised |-> r.raised,
                inits |-> r.w.inits, updates |-> r.w.updates, result |-> result]
    /\ UNCHANGED <<netVars, graphVars, trainVars, mathVars, utilVars, default_session>>

\* model.set_session(session)
SetSession(session) ==
    /\ session = NoSession => (default_session # NoSession \/ sessions < MaxSessions)
    /\ IF session = NotASession
       THEN Returned("set_session", [w |-> World, raised |-> "TypeError"], NoResult)
       ELSE Returned("set_session", [w |-> set_session(World, session), raised |-> "none"],
                     NoResult)

\* model.set_log_dir()
SetLogDir(log) ==
    Returned("set_log_dir", set_log_dir(World, log), NoResult)

\* model.log_graph()
LogGraph(log) ==
    /\ default_session # NoSession \/ sessions < MaxSessions
    /\ Returned("log_graph", log_graph(World, log), NoResult)

\* model.reset_session()
ResetSession ==
    Returned("reset_session",
             [w |-> [World EXCEPT !.model.session = NoSession], raised |-> "none"], NoResult)

\* model.init_vars()
InitVars ==
    /\ CanBind
    /\ Returned("init_vars", [w |-> init_vars(World), raised |-> "none"], NoResult)

\* model.load_model(global_step=..., load_graph=...)
LoadModel(global_step, load_graph, found, log) ==
    /\ CanBind
    /\ LET r == load_model(World, global_step, load_graph, found, log)
       IN Returned("load_model", r,
                   [kind |-> "path", items |-> <<r.path>>, global_step |-> global_step])

\* model.run_step(feed)
RunStep(feed) ==
    /\ CanBind
    /\ model.run_steps + model.eval_steps + model.train_steps < MaxSteps
    /\ LET r == run_step(World, feed) IN Returned("run_step", r, r.result)

\* model.eval_step(feed)
EvalStep(feed) ==
    /\ CanBind
    /\ model.run_steps + model.eval_steps + model.train_steps < MaxSteps
    /\ LET r == eval_step(World, feed) IN Returned("eval_step", r, r.result)

\* model.train_step(feed): the instance attribute train_step set by
\* __init__ (None) hides the method, and calling it raises TypeError
TrainStep(feed) ==
    LET r == attribute_train_step(World, feed) IN Returned("train_step", r, r.result)

\* the program opens a session and makes it the default session
NewDefaultSession ==
    /\ sessions < MaxSessions
    /\ sessions' = sessions + 1
    /\ default_session' = sessions + 1
    /\ UNCHANGED <<netVars, graphVars, trainVars, mathVars, utilVars, model, initialised, call>>

\* the program leaves the default session or enters another one
SwitchDefaultSession(session) ==
    /\ session # default_session
    /\ default_session' = session
    /\ UNCHANGED <<netVars, graphVars, trainVars, mathVars, utilVars, model, sessions, initialised, call>>

\* a chain of layers in -> ... -> out, its input a placeholder
ChainNet ==
    /\ input_layers = [l \in Layers |-> IF l = 1 THEN <<>> ELSE <<l - 1>>]
    /\ placeholder = {1}
    /\ value = [l \in Layers |-> None]
    /\ variables \in {[l \in Layers |-> IF l = NLayers THEN V ELSE {}] : V \in SUBSET VarNames}

ModelArgs ==
    [run_outputs : {<<NLayers>>},
     run_inputs : {{}},
     train_inputs : {{}},
     train_loss : {<<>>},
     eval_inputs : {{}},
     eval_outputs : {<<>>},
     eval_score : {<<NLayers>>},
     update_inputs : {{}},
     update_ops : {<<>>}]

InitModel ==
    /\ ChainNet
    /\ lg = NoGraph
    /\ ctor = NoCtor
    /\ ev = NoEval
    /\ model \in {ModelInit(a).self : a \in {b \in ModelArgs : ModelInit(b).raised = "none"}}
    /\ default_session = NoSession
    /\ sessions = 0
    /\ initialised = {}
    /\ call = NoCall
    /\ train = NoTrain
    /\ math = NoMath
    /\ callback = NoCallback

ModelFeeds == {Dict(EmptyDict), Dict([l \in {1} |-> "fed"])}

NextModel ==
    \/ \E session \in {NotASession, NoSession} \cup (1 .. sessions) : SetSession(session)
    \/ ResetSession
    \/ InitVars
    \/ \E global_step \in {"None", "int", "Variable"}, load_graph, found \in BOOLEAN,
          log \in LogPaths :
          LoadModel(global_step, load_graph, found, log)
    \/ \E feed \in ModelFeeds : RunStep(feed)
    \/ \E feed \in ModelFeeds : EvalStep(feed)
    \/ \E feed \in ModelFeeds : TrainStep(feed)
    \/ NewDefaultSession
    \/ \E session \in 0 .. sessions : SwitchDefaultSession(session)
    \/ \E log \in LogPaths : SetLogDir(log)
    \/ \E log \in LogPaths : LogGraph(log)

SpecModel == InitModel /\ [][NextModel]_vars

-----------------------------------------------------------------------------
(* What the claims about Model sessions speak of *)

\* C9: vars_inited() is truthy only in a session in which the model
\* completed init_vars or load_model; a freshly built model and a model
\* moved to a session it has not initialised in report not initialised
C9_InitedOnlyInInitialisedSession ==
    /\ vars_inited(model) =>
           (model.session # NoSession /\ model.session \in initialised)
    /\ call.op = "none" => ~vars_inited(model)

C9_Witness ==
    /\ model.var_inited.inited
    /\ model.var_inited.session \in initialised
    /\ model.session # NoSession
    /\ model.session \notin initialised
    /\ ~vars_inited(model)

\* a step that is a call of run_step
C10_RunStepTaken == call'.op = "run_step" /\ call'.seq # call.seq

\* what run_step does to the session and the initialiser
C10_RunStep ==
    C10_RunStepTaken =>
        /\ model.session = NoSession =>
              /\ model'.session = IF default_session # NoSession
                                  THEN default_session ELSE sessions + 1
              /\ sessions' = IF default_session # NoSession
                             THEN sessions ELSE sessions + 1
              /\ call'.inits \in {0, 1}
              /\ call'.inits = 1 <=>
                    /\ has_vars(model)
                    /\ ~(model.var_inited.inited
                            /\ model.var_inited.session = model'.session)
        /\ call.op = "run_step" =>
              /\ model'.session = model.session
              /\ call'.inits = 0

\* C10: run_step on a model without a session binds the default session, or
\* a new one when there is none, and runs the initialiser exactly when the
\* model has variables that are not initialised in that session; a run_step
\* that follows a run_step keeps the session and does not initialise again
C10_RunStepBindsAndInitialisesOnce == [][C10_RunStep]_vars

C10_Witness ==
    /\ call.op = "run_step"
    /\ call.raised = "none"
    /\ call.inits = 0
    /\ model.run_steps = 2
    /\ has_vars(model)
    /\ vars_inited(model)
    /\ Cardinality(initialised) = 1

-----------------------------------------------------------------------------
(* What the claims about the steps of a Model speak of *)

\* the values session.run produces for the run outputs, in their order
RunOutputValues == [i \in 1 .. Len(model.run_outputs) |-> ValueOf(Tensor(model.run_outputs[i]))]

\* C11: a run_step that returns gives, for a model with one run output, the
\* whole value the session produced for that output (not a list, not a row
\* of it), and for several run outputs the list of their values in order
C11_RunStepReturnsWholeValue ==
    (call.op = "run_step" /\ call.raised = "none") =>
        IF Len(model.run_outputs) = 1
        THEN call.result = BareResult(RunOutputValues[1])
        ELSE call.result = ListResult(RunOutputValues)

-----------------------------------------------------------------------------
(* The training specification: a model with losses and update ops *)

\* model.config_optimizer(optimizer, optimizer_params)
ConfigOptimizer(optimizer_params) ==
    LET r == config_optimizer(World, optimizer_params)
    IN Returned("config_optimizer", [w |-> r.w, raised |-> r.raised], NoResult)

\* Model.train_step(model, feed_dict): the method, called through the class
TrainStepMethod(feed) ==
    /\ CanBind
    /\ model.run_steps + model.eval_steps + model.train_steps < MaxSteps
    /\ LET r == train_step(World, feed) IN Returned("Model.train_step", r, r.result)

\* model.save_model(save_graph=...)
SaveModel(save_graph, log) ==
    /\ CanBind
    /\ LET r == save_model(World, save_graph, log) IN Returned("save_model", r, r.result)

\* in -> hidden -> ... -> out with the Mean layer over the losses; the input
\* may have a default value, the layers after it may have variables
StepNet(train_loss) ==
    /\ input_layers = [l \in 1 .. MeanLayer |->
                          IF l = 1 THEN <<>>
                          ELSE IF l = MeanLayer THEN train_loss
                          ELSE <<l - 1>>]
    /\ placeholder = {1}
    /\ value \in {[l \in 1 .. MeanLayer |-> IF l = 1 THEN v ELSE None] :
                     v \in {None} \cup DefaultVals}
    /\ variables \in {[l \in 1 .. MeanLayer |->
                          IF l = 2 THEN V ELSE IF l = NLayers THEN W ELSE {}] :
                         V \in SUBSET VarNames, W \in SUBSET VarNames}

StepArgs ==
    [run_outputs : {<<2>>},
     run_inputs : {{}},
     train_inputs : {{}},
     train_loss : {<<>>, <<NLayers>>, <<NLayers - 1, NLayers>>},
     eval_inputs : {{}},
     eval_outputs : {<<>>},
     eval_score : {<<2>>},
     update_inputs : {{}},
     update_ops : {<<>>, <<NLayers>>}]

InitSteps ==
    /\ \E a \in StepArgs :
          /\ StepNet(a.train_loss)
          /\ ModelInit(a).raised = "none"
          /\ model = ModelInit(a).self
    /\ lg = NoGraph
    /\ ctor = NoCtor
    /\ ev = NoEval
    /\ default_session = NoSession
    /\ sessions = 0
    /\ initialised = {}
    /\ call = NoCall
    /\ train = NoTrain
    /\ math = NoMath
    /\ callback = NoCallback

NextSteps ==
    \/ ConfigOptimizer(<<>>)
    \/ \E feed \in ModelFeeds : TrainStep(feed)
    \/ \E feed \in ModelFeeds : TrainStepMethod(feed)
    \/ \E feed \in ModelFeeds : RunStep(feed)
    \/ \E feed \in ModelFeeds : EvalStep(feed)
    \/ \E save_graph \in BOOLEAN, log \in LogPaths : SaveModel(save_graph, log)
    \/ ResetSession
    \/ \E log \in LogPaths : SetLogDir(log)
    \/ \E log \in LogPaths : LogGraph(log)

SpecSteps == InitSteps /\ [][NextSteps]_vars

-----------------------------------------------------------------------------
(* Model.train: the epoch loop, with steps_per_epoch=None and without
   validation or test data.  train holds the locals of the call; its
   events, thrown and logged fields record what the scheduler was asked to
   trigger, the exceptions raised inside the try block and the exceptions
   handed to logging.exception; epoch_calls and completed count the calls
   of self.train_step in the current epoch and those that returned *)

\* exceptions a callback can raise when an event is triggered
Raises == {"none", "Exception", "StopIteration"}

\* train_loss = Property("train_loss", None)
NoAverage == [over |-> 0]

\* OnTrain(at), OnEpoch(epoch, at), OnStep(step, at), OnEpochStep(step, at)
Event(on, n, at) == [on |-> on, n |-> n, at |-> at]

\* the locals of train(train_data, epochs) before the first trigger:
\* train_data yields data feed dicts at each iteration
train_locals(data, epochs) ==
    [pc |-> "train_start", data |-> data, epochs |-> epochs,
     step |-> 1, epoch |-> 1, epoch_step |-> 1,
     train_loss |-> NoAverage, total_loss |-> <<>>, it |-> 0,
     events |-> <<>>, thrown |-> <<>>, logged |-> <<>>, raised |-> "none",
     epoch_calls |-> 0, completed |-> 0]

\* scheduler.trigger(event): the event reaches the callbacks, one of which
\* may raise exc.  x = [f, exc]: the locals and the exception in flight
trigger(x, event, exc) ==
    IF x.exc # "none" THEN x
    ELSE [f |-> [x.f EXCEPT !.events = Append(@, event)], exc |-> exc]

\* feed_dict = next(epoch_data)
next_feed(x) ==
    IF x.f.it > x.f.data THEN [x EXCEPT !.exc = "StopIteration"]
    ELSE [x EXCEPT !.f.it = @ + 1]

\* loss = self.train_step(feed_dict=feed_dict); total_loss += loss;
\* train_loss.value = total_loss / epoch_step.value.  total_loss is kept as
\* the list of the losses added
train_and_average(x, w) ==
    LET r == attribute_train_step(w, x.f.it - 1)
        f1 == [x.f EXCEPT !.epoch_calls = @ + 1]
        total == Append(f1.total_loss, r.result)
    IN IF x.exc # "none" THEN x
       ELSE IF r.raised # "none" THEN [f |-> f1, exc |-> r.raised]
       ELSE [f |-> [f1 EXCEPT !.total_loss = total,
                              !.train_loss = [sum |-> total, over |-> f1.epoch_step],
                              !.completed = @ + 1],
             exc |-> "none"]

\* epoch_step.value += 1; step.value += 1
next_step(x) ==
    IF x.exc # "none" THEN x
    ELSE [x EXCEPT !.f.epoch_step = @ + 1, !.f.step = @ + 1]

\* except Exception as e: logging.exception(...), and on to OnTrain(END)
except_Exception(f, exc) ==
    [f EXCEPT !.thrown = Append(@, exc), !.logged = Append(@, exc), !.pc = "train_end"]

\* one pass through the body of the inner while loop; cb[i] is what the
\* callbacks of the i-th trigger raise.  StopIteration is passed over and
\* the loop goes on, any other exception leaves the epoch loop
epoch_step_body(f, w, cb) ==
    LET x0 == next_feed([f |-> f, exc |-> "none"])
        drawn == x0.exc = "none"
        x1 == trigger(x0, Event("Step", f.epoch_step, "START"), cb[1])
        x2 == trigger(x1, Event("EpochStep", f.epoch_step, "START"), cb[2])
        x3 == train_and_average(x2, w)
        x4 == trigger(x3, Event("Step", f.epoch_step, "END"), cb[3])
        x5 == trigger(x4, Event("EpochStep", f.epoch_step, "END"), cb[4])
        x6 == next_step(x5)
    IN IF x6.exc = "none" THEN x6.f
       ELSE IF x6.exc = "StopIteration"
       THEN IF drawn THEN [x6.f EXCEPT !.thrown = Append(@, "StopIteration")] ELSE x6.f
       ELSE except_Exception(x6.f, x6.exc)

\* model.train(train_data, epochs=epochs): up to the first trigger
Train(data, epochs) ==
    /\ train.pc = "none"
    /\ train' = train_locals(data, epochs)
    /\ UNCHANGED <<netVars, graphVars, modelVars, mathVars, utilVars>>

\* scheduler.trigger(OnTrain(AT.START)), outside the try block
TrainStart(exc) ==
    /\ train.pc = "train_start"
    /\ LET x == trigger([f |-> train, exc |-> "none"], Event("Train", 0, "START"), exc)
       IN train' = IF x.exc = "none" THEN [x.f EXCEPT !.pc = "epoch"]
                   ELSE [x.f EXCEPT !.pc = "raised", !.raised = x.exc]
    /\ UNCHANGED <<netVars, graphVars, modelVars, mathVars, utilVars>>

\* while epoch.value <= epochs: the start of an epoch
EpochStart(exc) ==
    /\ train.pc = "epoch"
    /\ train.epoch <= train.epochs
    /\ LET f == [train EXCEPT !.it = 1, !.epoch_step = 1, !.total_loss = <<>>,
                              !.epoch_calls = 0]
           x == trigger([f |-> f, exc |-> "none"], Event("Epoch", f.epoch, "START"), exc)
       IN train' = IF x.exc = "none" THEN [x.f EXCEPT !.pc = "step"]
                   ELSE except_Exception(x.f, x.exc)
    /\ UNCHANGED <<netVars, graphVars, modelVars, mathVars, utilVars>>

\* while epoch.value <= epochs: no epoch left
EpochsDone ==
    /\ train.pc = "epoch"
    /\ train.epoch > train.epochs
    /\ train' = [train EXCEPT !.pc = "train_end"]
    /\ UNCHANGED <<netVars, graphVars, modelVars, mathVars, utilVars>>

\* while steps_per_epoch is None or ...: one pass through the loop body
EpochStep(cb) ==
    /\ train.pc = "step"
    /\ train' = epoch_step_body(train, World, cb)
    /\ UNCHANGED <<netVars, graphVars, modelVars, mathVars, utilVars>>

\* scheduler.trigger(OnTrain(AT.END)), after the try block, and the return
TrainEnd(exc) ==
    /\ train.pc = "train_end"
    /\ LET x == trigger([f |-> train, exc |-> "none"], Event("Train", 0, "END"), exc)
       IN train' = IF x.exc = "none" THEN [x.f EXCEPT !.pc = "done"]
                   ELSE [x.f EXCEPT !.pc = "raised", !.raised = x.exc]
    /\ UNCHANGED <<netVars, graphVars, modelVars, mathVars, utilVars>>

\* number of feed dicts train_data yields, and number of epochs
MaxData == 2
MaxEpochs == 2

InitTrain ==
    /\ \E a \in StepArgs :
          /\ StepNet(a.train_loss)
          /\ a.update_ops = <<>>
          /\ ModelInit(a).raised = "none"
          /\ model = ModelInit(a).self
    /\ value = [l \in 1 .. MeanLayer |-> None]
    /\ variables = [l \in 1 .. MeanLayer |-> {}]
    /\ lg = NoGraph
    /\ ctor = NoCtor
    /\ ev = NoEval
    /\ default_session = NoSession
    /\ sessions = 0
    /\ initialised = {}
    /\ call = NoCall
    /\ train = NoTrain
    /\ math = NoMath
    /\ callback = NoCallback

\* the steps of a call of train
TrainLoop ==
    \/ \E data \in 0 .. MaxData, epochs \in 0 .. MaxEpochs : Train(data, epochs)
    \/ \E exc \in Raises : TrainStart(exc)
    \/ \E exc \in Raises : EpochStart(exc)
    \/ EpochsDone
    \/ \E cb \in [1 .. 4 -> Raises] : EpochStep(cb)
    \/ \E exc \in Raises : TrainEnd(exc)

NextTrain ==
    \/ /\ train.pc = "none"
       /\ ConfigOptimizer(<<>>)
    \/ TrainLoop

\* the program calls train, and the call goes on for as long as one of its
\* steps changes its locals
SpecTrain == InitTrain /\ [][NextTrain]_vars /\ WF_train(TrainLoop)

-----------------------------------------------------------------------------
(* What the claims about training steps speak of *)

\* a step that is a call of run_step or eval_step
C12_StepTaken == call'.op \in {"run_step", "eval_step"} /\ call'.seq # call.seq

\* every input of the model's graphs has a default value
InputsHaveDefaults == \A l \in placeholder : value[l] # None

\* C12: on a model with update ops whose inputs have default values, the
\* run_step or eval_step that follows a train step evaluates the update
\* graph once, returns normally and clears train_called; the one that
\* follows a run_step or eval_step does not evaluate the update graph
C12_Step ==
    (C12_StepTaken /\ model.update_graph.built /\ InputsHaveDefaults) =>
        /\ (call.op = "Model.train_step" /\ call.raised = "none") =>
              /\ call'.updates = 1
              /\ call'.raised = "none"
              /\ ~model'.train_called
        /\ call.op \in {"run_step", "eval_step"} => call'.updates = 0

C12_UpdateGraphAfterTrainStep == [][C12_Step]_vars

\* a step that is a call model.train_step(feed_dict)
C13_TrainStepTaken == call'.op = "train_step" /\ call'.seq # call.seq

\* what model.train_step(feed_dict) does on a configured model
C13_TrainStep ==
    (C13_TrainStepTaken /\ model.train_graph.built /\ InputsHaveDefaults) =>
        /\ call'.raised = "none"
        /\ call'.result = BareResult(ValueOf(Tensor(model.joint_loss.layer)))
        /\ model'.train_steps = model.train_steps + 1

\* C13: after config_optimizer succeeded, every call model.train_step(feed)
\* evaluates the train graph, returns the value of the joint loss and
\* increases train_steps by exactly 1
C13_TrainStepTrains == [][C13_TrainStep]_vars

\* C14: on a configured model the joint loss is the sum of the train losses
\* when there are several and the train loss itself when there is one, and
\* it is what a train step returns
C14_JointLossIsSum ==
    /\ model.train_graph.built =>
          /\ Len(model.train_loss) = 1 =>
                model.joint_loss = [layer |-> model.train_loss[1], fn |-> "loss"]
          /\ Len(model.train_loss) > 1 =>
                /\ model.joint_loss.fn = "Sum"
                /\ input_layers[model.joint_loss.layer] = model.train_loss
    /\ (call.op = "Model.train_step" /\ call.raised = "none") =>
          call.result = BareResult(ValueOf(Tensor(model.joint_loss.layer)))

\* what save_model does without and with variables; with variables and a
\* log directory to write to, it writes them
C15_SaveModel ==
    \A save_graph \in BOOLEAN, log \in LogPaths :
        SaveModel(save_graph, log) =>
            /\ (~has_vars(model) /\ ~save_graph) =>
                  /\ call'.raised = "ValueError"
                  /\ model'.session = model.session
                  /\ sessions' = sessions
                  /\ model'.log_dir = model.log_dir
            /\ (has_vars(model) /\ log = "directory") =>
                  /\ call'.raised = "none"
                  /\ call'.result.variables

\* C15: save_model without variables and without save_graph raises
\* ValueError before it binds a session or sets the log directory; with
\* variables, those of a train graph configured later included, it has a
\* saver and writes them
C15_SaveModelHasSaver == [][C15_SaveModel]_vars

\* a step that is a call of load_model
C16_LoadModelTaken == call'.op = "load_model" /\ call'.seq # call.seq

\* what load_model restores from when the log directory, the checkpoint
\* files and the saver exist, and what the step after a successful load_model
\* does
C16_LoadModel ==
    /\ (C16_LoadModelTaken
           /\ call'.raised \notin {"IOError", "NotFoundError", "AttributeError",
                                    "ValueError", "OSError"}) =>
          /\ call'.raised = "none"
          /\ call'.result.items[1] = IF call'.result.global_step = "None"
                                     THEN model_path("none")
                                     ELSE model_path("step")
          /\ vars_inited(model')
    /\ (call.op = "load_model" /\ call.raised = "none"
           /\ call'.op \in {"run_step", "eval_step", "Model.train_step"}
           /\ call'.seq # call.seq) =>
          call'.inits = 0

\* C16: load_model restores from '<log_dir>/<model_name>-<step>' when a
\* global_step (a number or a Variable) is given and from
\* '<log_dir>/<model_name>' otherwise; a successful load_model marks the
\* model initialised in its session and the next step does not run the
\* variable initialiser
C16_LoadModelPath == [][C16_LoadModel]_vars

-----------------------------------------------------------------------------
(* What the claims about Model.train speak of *)

\* the positions of an event in the events triggered so far
C17_Positions(event) == {i \in 1 .. Len(train.events) : train.events[i] = event}

\* C17: OnTrain(START) is triggered once and first, OnTrain(END) once and
\* last; an exception raised inside the epoch loop by a train step or by a
\* callback is logged, ends the loop and is not propagated, and OnTrain(END)
\* is triggered after it
C17_TrainEventsAndExceptions ==
    train.pc # "none" =>
        /\ C17_Positions(Event("Train", 0, "START")) \subseteq {1}
        /\ Len(train.events) > 0 => train.events[1] = Event("Train", 0, "START")
        /\ C17_Positions(Event("Train", 0, "END")) \subseteq {Len(train.events)}
        /\ train.pc = "done" => C17_Positions(Event("Train", 0, "END")) # {}
        /\ train.logged = train.thrown
        /\ Len(train.thrown) > 0 => train.pc \in {"train_end", "done", "raised"}
        /\ train.pc = "raised" =>
              train.events[Len(train.events)].on = "Train"

\* a callback raised during the call of train
C18_CallbackRaised ==
    /\ train.pc # "none"
    /\ \/ train.raised # "none"
       \/ \E i \in 1 .. Len(train.thrown) : train.thrown[i] \in {"Exception", "StopIteration"}

\* the OnEpoch(END) events triggered so far
C18_EpochEnds == {i \in 1 .. Len(train.events) :
                     train.events[i].on = "Epoch" /\ train.events[i].at = "END"}

C18_Returned ==
    /\ train.pc = "done"
    /\ train.step = 1 + train.epochs * train.data
    /\ train.completed = train.epochs * train.data
    /\ Cardinality(C18_EpochEnds) = train.epochs
    /\ train.events[Len(train.events)] = Event("Train", 0, "END")

\* C18: unless a callback raises, train(train_data, epochs=E) on a
\* train_data of N feed dicts returns, having made N train steps in each of
\* the E epochs, E * N in all, and having triggered OnEpoch(END) for each
\* epoch and then OnTrain(END)
C18_TrainTerminates == (train.pc # "none") ~> (C18_Returned \/ C18_CallbackRaised)

\* C19: once train has made a train step in the current epoch, train_loss
\* holds the average of the losses of the epoch's train steps so far: their
\* sum over their number; step is 1 plus the number of train steps completed
C19_TrainLossIsRunningAverage ==
    train.pc # "none" =>
        /\ train.epoch_calls >= 1 =>
              /\ Len(train.total_loss) = train.epoch_calls
              /\ train.train_loss = [sum |-> train.total_loss, over |-> train.epoch_calls]
        /\ train.step = 1 + train.completed

-----------------------------------------------------------------------------
(* tensorx.math.safe_div on vectors of floats.  A float is a fraction in
   lowest terms with a positive denominator, an infinity or NaN *)

\* largest length of a vector, and largest magnitude of an element
MaxLen == 2
MaxValue == 2

Abs(n) == IF n < 0 THEN -n ELSE n

RECURSIVE Gcd(_, _)
Gcd(a, b) == IF b = 0 THEN a ELSE Gcd(b, a % b)

\* the float n / d, d # 0
Fraction(n, d) ==
    LET g == Gcd(Abs(n), Abs(d))
        sign == IF d < 0 THEN -1 ELSE 1
    IN [kind |-> "finite", num |-> sign * (n \div g), den |-> sign * (d \div g)]

Float(n) == Fraction(n, 1)
Infinity(sign) == [kind |-> "inf", num |-> sign, den |-> 0]
NaN == [kind |-> "nan", num |-> 0, den |-> 0]

Sign(x) == IF x.num < 0 THEN -1 ELSE IF x.num > 0 THEN 1 ELSE 0

\* x / y on floats, IEEE 754
float_div(x, y) ==
    IF x.kind = "nan" \/ y.kind = "nan" THEN NaN
    ELSE IF x.kind = "inf"
    THEN IF y.kind = "inf" THEN NaN
         ELSE Infinity(IF Sign(y) < 0 THEN -Sign(x) ELSE Sign(x))
    ELSE IF y.kind = "inf" THEN Float(0)
    ELSE IF y.num = 0
    THEN IF x.num = 0 THEN NaN ELSE Infinity(Sign(x))
    ELSE Fraction(x.num * y.den, x.den * y.num)

\* math_ops.equal(x, c), array_ops.ones_like, array_ops.zeros_like,
\* array_ops.where(condition, x, y), math_ops.div and math_ops.is_finite,
\* element by element
equal(x, c) == [i \in 1 .. Len(x) |-> x[i] = c]
ones_like(x) == [i \in 1 .. Len(x) |-> Float(1)]
zeros_like(x) == [i \in 1 .. Len(x) |-> Float(0)]
where(condition, x, y) == [i \in 1 .. Len(x) |-> IF condition[i] THEN x[i] ELSE y[i]]
div(x, y) == [i \in 1 .. Len(x) |-> float_div(x[i], y[i])]
is_finite(x) == [i \in 1 .. Len(x) |-> x[i].kind = "finite"]

\* safe_div(numerator, denominator): the comma that ends the first
\* statement makes res a tuple of one tensor, so that the result has one
\* more dimension, of size 1, than the arguments
safe_div(numerator, denominator) ==
    LET res == <<div(numerator,
                     where(equal(denominator, Float(0)), ones_like(denominator), denominator))>>
    IN [r \in 1 .. Len(res) |-> where(is_finite(res[r]), res[r], zeros_like(res[r]))]

\* the elements of a numerator and of a denominator (assumed non-negative)
Numerators == {Float(n) : n \in -MaxValue .. MaxValue} \cup {Infinity(1), NaN}
Denominators == {Float(n) : n \in 0 .. MaxValue}

\* result = safe_div(numerator, denominator)
SafeDiv(numerator, denominator) ==
    /\ ~math.called
    /\ math' = [called |-> TRUE, numerator |-> numerator, denominator |-> denominator,
                result |-> safe_div(numerator, denominator)]
    /\ UNCHANGED <<netVars, graphVars, modelVars, trainVars, utilVars>>

InitMath ==
    /\ InitNet
    /\ placeholder = {}
    /\ input_layers = [l \in Layers |-> <<>>]
    /\ value = [l \in Layers |-> None]

NextMath ==
    \E n \in 1 .. MaxLen :
       \E numerator \in [1 .. n -> Numerators], denominator \in [1 .. n -> Denominators] :
          SafeDiv(numerator, denominator)

SpecMath == InitMath /\ [][NextMath]_vars

\* C20: at every position safe_div returns 0 where the denominator is zero
\* and numerator / denominator where it is not
C20_SafeDivZeroDenominator ==
    math.called =>
        \A i \in 1 .. Len(math.denominator) :
            math.result[1][i] = IF math.denominator[i] = Float(0)
                                THEN Float(0)
                                ELSE float_div(math.numerator[i], math.denominator[i])

-----------------------------------------------------------------------------
(* The callbacks of train.py that decay a property: EvaluationDecay and
   DecayAfter.  Their numbers are finite floats, modelled as fractions *)

\* largest number of invocations of a callback's update function
MaxCalls == 3

float_sub(x, y) == Fraction(x.num * y.den - y.num * x.den, x.den * y.den)
float_mul(x, y) == Fraction(x.num * y.num, x.den * y.den)
float_le(x, y) == x.num * y.den <= y.num * x.den
float_max(x, y) == IF float_le(y, x) THEN x ELSE y

\* properties[name]: a Property object with its value
Property(v) == [property |-> TRUE, value |-> v]

\* prop <= number for a Property object: the comparison by value when the
\* Property class orders its objects, a TypeError when it does not
Property_le(prop, number, ordered) ==
    IF ordered THEN IF float_le(prop.value, number) THEN "True" ELSE "False"
    ELSE "TypeError"

\* EvaluationDecay(on, changes, improvement_threshold, less_is_better,
\* decay_rate, decay_threshold), with the value of the property it changes
EvaluationDecayInit(a) ==
    [kind |-> "EvaluationDecay",
     improvement_threshold |-> a.improvement_threshold,
     less_is_better |-> a.less_is_better,
     decay_rate |-> a.decay_rate,
     decay_threshold |-> a.decay_threshold,
     eval_history |-> <<>>,
     to_change |-> a.value,
     ordered |-> a.ordered,
     invocations |-> 0,
     before |-> a.value,
     raised |-> "none"]

\* EvaluationDecay's update_fn(_, properties), properties[self.on].value
\* being evaluation
EvaluationDecay_update_fn(self, evaluation) ==
    LET eval_history == Append(self.eval_history, evaluation)
        n == Len(eval_history)
        difference == float_sub(eval_history[n - 1], eval_history[n])
        improvement == IF self.less_is_better THEN difference
                       ELSE float_mul(Float(-1), difference)
        \* evaluation <= self.improvement_threshold
        le == IF n > 1
              THEN IF float_le(improvement, self.improvement_threshold) THEN "True" ELSE "False"
              ELSE Property_le(Property(evaluation), self.improvement_threshold, self.ordered)
    IN [self EXCEPT !.eval_history = eval_history,
                    !.invocations = @ + 1,
                    !.before = self.to_change,
                    !.raised = IF le = "TypeError" THEN "TypeError" ELSE "none",
                    !.to_change = IF le = "True"
                                  THEN float_max(float_mul(@, self.decay_rate),
                                                 self.decay_threshold)
                                  ELSE @]

\* DecayAfter(decay_after, changes, decay_rate, decay_threshold), with the
\* value of the property it changes
DecayAfterInit(a) ==
    [kind |-> "DecayAfter",
     decay_after |-> a.decay_after,
     decay_rate |-> a.decay_rate,
     decay_threshold |-> a.decay_threshold,
     current_step |-> 1,
     to_change |-> a.value,
     invocations |-> 0,
     before |-> a.value]

\* DecayAfter's update_fn(_, properties)
DecayAfter_update_fn(self) ==
    LET current_step == self.current_step + 1
    IN [self EXCEPT !.current_step = current_step,
                    !.invocations = @ + 1,
                    !.before = self.to_change,
                    !.to_change = IF ~(current_step < self.decay_after)
                                  THEN float_max(self.decay_threshold,
                                                 float_mul(@, self.decay_rate))
                                  ELSE @]

\* the arguments of the callbacks and the value of the property they change
EvaluationDecayArgs ==
    [improvement_threshold : {Float(0), Float(1)},
     less_is_better : BOOLEAN,
     decay_rate : {Fraction(1, 2), Float(1)},
     decay_threshold : {Fraction(1, 4)},
     value : {Float(1)},
     ordered : BOOLEAN]

DecayAfterArgs ==
    [decay_after : 0 .. MaxCalls,
     decay_rate : {Fraction(1, 2), Float(1)},
     decay_threshold : {Fraction(1, 4)},
     value : {Float(1)}]

\* callback = EvaluationDecay(...)
NewEvaluationDecay(a) ==
    /\ callback.kind = "none"
    /\ callback' = EvaluationDecayInit(a)
    /\ UNCHANGED <<netVars, graphVars, modelVars, trainVars, mathVars>>

\* callback = DecayAfter(...)
NewDecayAfter(a) ==
    /\ callback.kind = "none"
    /\ callback' = DecayAfterInit(a)
    /\ UNCHANGED <<netVars, graphVars, modelVars, trainVars, mathVars>>

\* an epoch ends with the monitored property at evaluation
EvaluationDecayUpdate(evaluation) ==
    /\ callback.kind = "EvaluationDecay"
    /\ callback.invocations < MaxCalls
    /\ callback' = EvaluationDecay_update_fn(callback, evaluation)
    /\ UNCHANGED <<netVars, graphVars, modelVars, trainVars, mathVars>>

\* an epoch ends
DecayAfterUpdate ==
    /\ callback.kind = "DecayAfter"
    /\ callback.invocations < MaxCalls
    /\ callback' = DecayAfter_update_fn(callback)
    /\ UNCHANGED <<netVars, graphVars, modelVars, trainVars, mathVars>>

InitDecay == InitMath

NextDecay ==
    \/ \E a \in EvaluationDecayArgs : NewEvaluationDecay(a)
    \/ \E a \in DecayAfterArgs : NewDecayAfter(a)
    \/ \E evaluation \in {Float(n) : n \in 0 .. MaxValue} : EvaluationDecayUpdate(evaluation)
    \/ DecayAfterUpdate

SpecDecay == InitDecay /\ [][NextDecay]_vars

-----------------------------------------------------------------------------
(* What the claims about the decay callbacks speak of *)

Decayed(self) == float_max(float_mul(self.before, self.decay_rate), self.decay_threshold)

\* C23: every invocation of EvaluationDecay appends the evaluation to
\* eval_history; the first leaves the target property unchanged; from the
\* second on the property becomes max(value * decay_rate, decay_threshold)
\* if the improvement, previous - current evaluation (negated when
\* less_is_better is False), is <= improvement_threshold and is unchanged
\* otherwise, so that it is never decayed below decay_threshold
C23_EvaluationDecay ==
    (callback.kind = "EvaluationDecay" /\ callback.invocations >= 1) =>
        LET n == callback.invocations
            h == callback.eval_history
            difference == float_sub(h[n - 1], h[n])
            improvement == IF callback.less_is_better THEN difference
                           ELSE float_mul(Float(-1), difference)
        IN /\ Len(h) = n
           /\ callback.raised = "none"
           /\ n = 1 => callback.to_change = callback.before
           /\ n > 1 => callback.to_change =
                          IF float_le(improvement, callback.improvement_threshold)
                          THEN Decayed(callback) ELSE callback.before
           /\ callback.to_change # callback.before =>
                 float_le(callback.decay_threshold, callback.to_change)

\* C24: DecayAfter(decay_after=n) leaves the target property unchanged at
\* every epoch end k < n and replaces it by
\* max(decay_threshold, value * decay_rate) at every epoch end k >= n
C24_DecayAfter ==
    (callback.kind = "DecayAfter" /\ callback.invocations >= 1) =>
        callback.to_change = IF callback.invocations < callback.decay_after
                             THEN callback.before ELSE Decayed(callback)

====
